---- MODULE Spec2Model ----
(***************************************************************************)
(* Session-activity reconciliation of the Jules Discord bot: the session   *)
(* monitor (monitorSession), the activity formatter (formatActivity), the  *)
(* paginated activity feed (listActivities) and the per-conversation       *)
(* router (the messageCreate handler), as state machines whose steps are   *)
(* the stretches of code between two awaits.                               *)
(***************************************************************************)
EXTENDS Integers, Sequences, FiniteSets, TLC

\* ---------------------------------------------------------------- bounds
\* Longest activity feed of the session a monitor is checked against alone.
MaxFeed == 3
\* Longest activity feed of a session in the system of router and monitors.
MaxRouterFeed == 2
\* Activities per page of the feed.
PageSize == 2
\* Inbound chat messages (handler invocations; each starts at most one monitor).
MaxMessages == 2
\* Sessions the remote service creates.
MaxSessions == 1
\* Polls of one monitor that end a short sleep; later sleeps run to the ceiling.
MaxPolls == 2
\* Sources listSources returns when the account has any.
NumSources == 2
\* Longest artifact list of an activity the formatter is applied to on its own.
MaxArtifacts == 2
\* The longest activity list a poll of waitForAgentResponse is given.
MaxListed == 2

\* ------------------------------------------------------ program constants
\* Wall-clock ceiling of one monitor run, in ms.
maxTime == 600000
\* Sleep between two polls, in ms.
PollInterval == 4000
\* Silence after which a filler message is due, in ms.
IdleThreshold == 30000

None == 0
\* No reading of the clock yet.
NoTime == -1
\* The status of a response that reports the resource unknown, and the one
\* status that stands for every other failure.
NotFound == 404
ServerError == 500
FailureStatuses == {NotFound, ServerError}
Min(a, b) == IF a < b THEN a ELSE b

Handlers == 1..MaxMessages
Sessions == 1..MaxSessions
Conversations == {1}

\* ------------------------------------------------------ activity records
\* The payload shapes of an activity record the formatter distinguishes.
PlanShapes == {"absent", "noPlan", "noSteps", "emptySteps", "steps"}
ProgressShapes == {"absent", "noTitle", "titleOnly", "sameDescription", "description"}
OutputsShapes == {"absent", "empty", "noPullRequest", "pullRequest"}
ArtifactShapes == {"bash", "bashEmpty", "media", "mediaNoData"}

\* The artifacts field: absent, or a list of artifacts.
NoArtifacts == [present |-> FALSE, items |-> <<>>]
ArtifactList(items) == [present |-> TRUE, items |-> items]

Shape(orig, plan, prog, outs, done, arts) ==
    [originator |-> orig, planGenerated |-> plan, progressUpdated |-> prog,
     outputs |-> outs, sessionCompleted |-> done, artifacts |-> arts]

\* The shapes the remote service appends to a feed in the system model.
AgentProgress == Shape("agent", "absent", "titleOnly", "absent", FALSE, NoArtifacts)
AgentPlan == Shape("agent", "steps", "absent", "absent", FALSE, NoArtifacts)
AgentPullRequest == Shape("agent", "absent", "absent", "pullRequest", FALSE, NoArtifacts)
AgentOutputsNoPR == Shape("agent", "absent", "absent", "noPullRequest", FALSE, NoArtifacts)
AgentCompleted == Shape("agent", "absent", "absent", "absent", TRUE, NoArtifacts)
UserProgress == Shape("user", "absent", "titleOnly", "absent", FALSE, NoArtifacts)
UserCompleted == Shape("user", "absent", "absent", "absent", TRUE, NoArtifacts)

\* A feed holds its activities by the name of their shape.
FeedShapes ==
    {"AgentProgress", "AgentPlan", "AgentPullRequest", "AgentOutputsNoPR",
     "AgentCompleted", "UserProgress"}

\* The shapes of a feed that holds turns of the user next to the agent's.
TurnShapes ==
    {"AgentProgress", "AgentPlan", "AgentCompleted", "UserProgress", "UserCompleted"}

\* The shapes appended in the system of router and monitors.
RouterFeedShapes == {"AgentProgress", "AgentCompleted"}

\* The activity record of a shape.
Activity(name) ==
    CASE name = "AgentProgress" -> AgentProgress
      [] name = "AgentPlan" -> AgentPlan
      [] name = "AgentPullRequest" -> AgentPullRequest
      [] name = "AgentOutputsNoPR" -> AgentOutputsNoPR
      [] name = "AgentCompleted" -> AgentCompleted
      [] name = "UserProgress" -> UserProgress
      [] name = "UserCompleted" -> UserCompleted

\* An activity as a page returns it: its identifier and its shape.
WithId(name, i) == [id |-> i, shape |-> name]

\* ------------------------------------------------------- formatActivity
\* activity.planGenerated && activity.planGenerated.plan
HasPlan(a) == a.planGenerated \notin {"absent", "noPlan"}

\* A chain of tests that asks for the outputs before the plan.
FirstMatchOutputsFirst(a) ==
    IF a.outputs # "absent" THEN "outputs"
    ELSE IF HasPlan(a) THEN "planGenerated"
    ELSE IF a.progressUpdated # "absent" THEN "progressUpdated"
    ELSE IF a.sessionCompleted THEN "sessionCompleted"
    ELSE "unknown"

\* The if / else-if chain over the payload fields: the first that is there
\* gives the type, and 'unknown' stays when none is.
FirstMatch(a) ==
    IF HasPlan(a) THEN "planGenerated"
    ELSE IF a.progressUpdated # "absent" THEN "progressUpdated"
    ELSE IF a.outputs # "absent" THEN "outputs"
    ELSE IF a.sessionCompleted THEN "sessionCompleted"
    ELSE "unknown"

\* A test that takes the steps of every plan to be there.
HasStepsAlways(plan) == TRUE

\* if (activity.planGenerated.plan.steps): an empty list passes the test.
HasSteps(plan) == plan \in {"emptySteps", "steps"}

\* What an expression evaluates to: a text, or a TypeError thrown.
Text(content) == [throws |-> FALSE, content |-> content]
TypeError == [throws |-> TRUE, content |-> <<>>]

\* plan.steps.map(...).join(...) behind the announcement sentence; map of
\* steps that are not there throws.
planText(plan) ==
    IF HasSteps(plan)
    THEN IF plan \in {"emptySteps", "steps"} THEN Text(<<"plan">>) ELSE TypeError
    ELSE Text(<<>>)

\* The title (or its default), and the description if there is one that
\* differs from the title.
progressText(prog) ==
    IF prog = "description" THEN Text(<<"title", "description">>) ELSE Text(<<"title">>)

\* outputs.find(o => o.pullRequest), and the url and title of what it found.
outputsText(outs) == IF outs = "pullRequest" THEN Text(<<"pullRequest">>) ELSE Text(<<>>)

\* The primary payload: the type of the first match and its text.
formatPrimary(a) ==
    LET type == FirstMatch(a)
        text == CASE type = "planGenerated" -> planText(a.planGenerated)
                  [] type = "progressUpdated" -> progressText(a.progressUpdated)
                  [] type = "outputs" -> outputsText(a.outputs)
                  [] type = "sessionCompleted" -> Text(<<"completed">>)
                  [] OTHER -> Text(<<>>)
    IN  [type |-> type, throws |-> text.throws, content |-> text.content]

\* Text appended for the artifacts, in order.
RECURSIVE artifactContent(_)
artifactContent(arts) ==
    IF arts = <<>> THEN <<>>
    ELSE (CASE Head(arts) = "bash" -> <<"bash">>
            [] Head(arts) = "media" -> <<"screenshot">>
            [] OTHER -> <<>>) \o artifactContent(Tail(arts))

\* Binary attachments produced from the media artifacts.
RECURSIVE artifactFiles(_)
artifactFiles(arts) ==
    IF arts = <<>> THEN 0
    ELSE (IF Head(arts) = "media" THEN 1 ELSE 0) + artifactFiles(Tail(arts))

NullResult ==
    [null |-> TRUE, throws |-> FALSE, content |-> <<>>, files |-> 0, type |-> "unknown"]

\* The call threw: nothing is returned.
Thrown == [NullResult EXCEPT !.null = FALSE, !.throws = TRUE]

\* A test that looks at the attachments only.
IsEmptyResultFilesOnly(content, files) == files = 0

\* !content && files.length === 0
IsEmptyResult(content, files) == content = <<>> /\ files = 0

formatActivity(a) ==
    LET primary == formatPrimary(a)
        \* if (activity.artifacts): the loop runs over a list that is there
        items == IF a.artifacts.present THEN a.artifacts.items ELSE <<>>
        content == primary.content \o artifactContent(items)
        files == artifactFiles(items)
    IN  IF primary.throws THEN Thrown
        ELSE IF IsEmptyResult(content, files) THEN NullResult
        ELSE [null |-> FALSE, throws |-> FALSE, content |-> content, files |-> files,
              type |-> primary.type]

\* ------------------------------------------------------- listActivities
\* A page token is the index of the page it asks for; None asks for the first.
MaxPageIndex == MaxFeed \div PageSize + 1

\* The activities of page tok of feed f, in creation order, each with its id.
Page(f, tok) ==
    LET lo == tok * PageSize
        n == IF Len(f) > lo THEN Min(PageSize, Len(f) - lo) ELSE 0
    IN  [i \in 1..n |-> WithId(f[lo + i], lo + i)]

\* The token of a service whose feed ends: absent after the last page.
NextPageToken(f, tok) == IF (tok + 1) * PageSize < Len(f) THEN tok + 1 ELSE None

\* The token of a service that keeps returning one.
EndlessPageToken(tok) == IF tok >= MaxPageIndex THEN 1 ELSE tok + 1

\* What one call can come back with: a rejected network call, a non-success
\* response (null), or one page of the feed with its next-page token.
listActivities(f, tok) ==
    {[kind |-> "throw", activities |-> <<>>, nextPageToken |-> None],
     [kind |-> "null", activities |-> <<>>, nextPageToken |-> None]}
    \cup {[kind |-> "data", activities |-> Page(f, tok), nextPageToken |-> t] :
            t \in {NextPageToken(f, tok), EndlessPageToken(tok)}}

\* ---------------------------------------------------------------- state
VARIABLES
    activeSessions,   \* channelId -> sessionId (None: no entry)
    feed,             \* the remote service's activity feed of each session
    created,          \* sessions the remote service has created so far
    mon,              \* the monitorSession runs, one slot per handler that may start one
    hand,             \* the messageCreate handler invocations
    inter,            \* the invocation of the interactions handler for a component
    fcall             \* one function of the program applied on its own

vars == <<activeSessions, feed, created, mon, hand, inter, fcall>>

NoPayload == [id |-> None, type |-> "unknown", content |-> <<>>, files |-> 0]

UnusedMonitor ==
    [pc |-> "unused", reason |-> "none", session |-> None, channel |-> None,
     seeded |-> FALSE, seenIds |-> {}, pageToken |-> None,
     isWaitingForResponse |-> TRUE, clock |-> 0, lastMutterTime |-> 0,
     polls |-> 0, queue |-> <<>>, cur |-> NoPayload,
     \* bookkeeping of the run, read by the properties only
     out |-> <<>>, history |-> 0, lastAgent |-> <<>>, skipped |-> {},
     \* when a poll of the run last found a new activity, and when the run
     \* last sent a filler
     newAt |-> NoTime, fillerAt |-> NoTime]

IdleHandler ==
    [pc |-> "idle", channel |-> None, session |-> None, seenIds |-> {},
     pageToken |-> None, sources |-> 0, matchIndex |-> None, replies |-> <<>>,
     \* bookkeeping: the length of the feed when sendMessageToSession was called
     forwardedAt |-> 0,
     \* bookkeeping of the calls the handler made, read by the properties only:
     \* what listSources came back with, how often the resolver and
     \* createSessionFull were called and against which source, the remote
     \* call that failed and its HTTP status, and whether the message before
     \* this one was answered with a clarification
     listed |-> "no", resolverCalls |-> 0, createCalls |-> 0, createSource |-> None,
     failedCall |-> "none", status |-> None, awaiting |-> FALSE,
     \* bookkeeping: whether the author of the message is a bot, and how
     \* often sendMessageToSession was called
     fromBot |-> FALSE, sendCalls |-> 0]

\* No function is being applied on its own.
NoCall == [pc |-> "none", fn |-> "none", arg |-> None, result |-> None]

IdleInteraction ==
    [pc |-> "idle", customId |-> <<>>, sessionId |-> None, response |-> "none",
     \* bookkeeping: the session ids approveSessionPlan was called with
     calls |-> <<>>]

Init ==
    /\ inter = IdleInteraction
    /\ fcall = NoCall
    /\ activeSessions = [c \in Conversations |-> None]
    /\ feed = [s \in Sessions |-> <<>>]
    /\ created = 0
    /\ mon = [h \in Handlers |-> UnusedMonitor]
    /\ hand = [h \in Handlers |-> IdleHandler]

\* ------------------------------------------------------- monitorSession
\* The run ends: by a session-completed activity, by the ceiling, or by an
\* error that rejects the promise monitorSession returned. Its locals are gone
\* with it; what it delivered stays on the channel.
Stop(st, why) ==
    [UnusedMonitor EXCEPT !.pc = "terminated", !.reason = why,
                          !.session = st.session, !.channel = st.channel,
                          !.seeded = st.seeded, !.out = st.out,
                          !.history = st.history, !.lastAgent = st.lastAgent]

\* while (Date.now() - startTime < maxTime), then the sleep of the iteration.
LoopHead(st) ==
    IF st.clock < maxTime THEN [st EXCEPT !.pc = "sleep", !.cur = NoPayload]
    ELSE Stop(st, "timeout")

\* startTime, lastMutterTime and the waiting flag, then the first loop test.
EnterLoop(st) ==
    LoopHead([st EXCEPT !.clock = 0, !.lastMutterTime = 0,
                        !.isWaitingForResponse = TRUE, !.pageToken = None])

\* seenIds after a page was added to it.
AddPage(seen, activities) == seen \cup {activities[i].id : i \in DOMAIN activities}

\* The synchronous start of monitorSession(sessionId, channel, initialSeenIds).
monitorSession(s, c, seeded, seed, len) ==
    LET st == [UnusedMonitor EXCEPT !.session = s, !.channel = c, !.seeded = seeded,
                                    !.seenIds = seed, !.history = len]
    IN  IF seeded THEN EnterLoop(st) ELSE [st EXCEPT !.pc = "backfill"]

Reverse(q) == [i \in 1..Len(q) |-> q[Len(q) + 1 - i]]

\* A filter that hands the new activities back newest first.
newActivitiesReversed(activities, seen) ==
    Reverse(SelectSeq(activities, LAMBDA a : a.id \notin seen))

\* data.activities.filter(a => !seenIds.has(a.id))
newActivities(activities, seen) == SelectSeq(activities, LAMBDA a : a.id \notin seen)

\* A loop that forgets to record the activity it handles.
MarkSeenForgets(seen, a) == seen

\* A loop that records an activity only behind the test for the user's turn.
MarkSeenAgentOnly(seen, a) ==
    IF Activity(a.shape).originator = "user" THEN seen ELSE seen \cup {a.id}

\* seenIds.add(activity.id)
MarkSeen(seen, a) == seen \cup {a.id}

\* A filler test that leaves the waiting flag out.
ShouldMutterIgnoringFlag(waiting, now, last) == now - last > IdleThreshold

\* isWaitingForResponse && (Date.now() - lastMutterTime > 30000)
ShouldMutter(waiting, now, last) == waiting /\ now - last > IdleThreshold

\* A test that takes no activity for the user's own turn.
IsUserTurnNever(activity) == FALSE

\* activity.originator === 'user'
IsUserTurn(activity) == activity.originator = "user"

\* The waiting flag after an activity of this classification.
WaitingAfter(waiting, type) ==
    CASE type = "planGenerated" -> FALSE
      [] type = "outputs" -> FALSE
      [] type = "progressUpdated" -> TRUE
      [] OTHER -> waiting

\* The for loop over newActivities, from its current position to the next
\* notification to deliver (the awaits of the loop) or to the end of the page.
RECURSIVE ProcessActivities(_)
ProcessActivities(st) ==
    IF st.queue = <<>> THEN LoopHead(st)
    ELSE
      LET a == Head(st.queue)
          activity == Activity(a.shape)
          st1 == [st EXCEPT !.queue = Tail(@), !.seenIds = MarkSeen(@, a)]
          result == formatActivity(activity)
          flag == IF result.null THEN st.isWaitingForResponse
                  ELSE WaitingAfter(st.isWaitingForResponse, result.type)
          st2 == [st1 EXCEPT !.isWaitingForResponse = flag,
                             !.lastAgent = <<[shape |-> a.shape, waiting |-> flag]>>]
          payload == [id |-> a.id, type |-> result.type, content |-> result.content,
                      files |-> result.files]
      IN  IF IsUserTurn(activity)
          THEN ProcessActivities([st1 EXCEPT !.skipped = @ \cup {a.id}])
          ELSE IF result.throws THEN Stop(st1, "error")
          ELSE IF result.null THEN ProcessActivities(st2)
          ELSE IF result.type = "sessionCompleted" THEN Stop(st2, "completed")
          ELSE [st2 EXCEPT !.pc = "deliver", !.cur = payload]

\* A timer that is left as it was.
ResetIdleTimerNever(last, now) == last

\* lastMutterTime = Date.now()
ResetIdleTimer(last, now) == now

\* The body of one loop iteration after the page came back.
PollResult(st, r) ==
    IF r.kind = "throw" THEN Stop(st, "error")
    ELSE IF r.kind = "null" \/ r.activities = <<>>
    THEN IF ShouldMutter(st.isWaitingForResponse, st.clock, st.lastMutterTime)
         THEN [st EXCEPT !.pc = "mutter"]
         ELSE LoopHead(st)
    ELSE LET new == newActivities(r.activities, st.seenIds)
         IN  IF new # <<>>
             THEN ProcessActivities(
                    [st EXCEPT !.lastMutterTime = ResetIdleTimer(@, st.clock),
                               !.newAt = st.clock, !.queue = new])
             ELSE IF ShouldMutter(st.isWaitingForResponse, st.clock, st.lastMutterTime)
                  THEN [st EXCEPT !.pc = "mutter"]
                  ELSE LoopHead(st)

\* How long the sleep and the fetch of one iteration can take: the sleep alone,
\* or as long as the idle threshold.
SleepDelays == {PollInterval, IdleThreshold}
\* The delays of the monitors in the system of router and monitors.
RouterDelays == {PollInterval}

\* The delays of a monitor's next iteration: after MaxPolls iterations the
\* rest of the run's time passes in one.
DelaysOf(st, delays) == IF st.polls < MaxPolls THEN delays ELSE {maxTime}

\* One page of the back-fill pass came back.
BackfillResponse(m) ==
    /\ mon[m].pc = "backfill"
    /\ \E r \in listActivities(feed[mon[m].session], mon[m].pageToken) :
         mon' = [mon EXCEPT ![m] =
                   IF r.kind = "throw" THEN Stop(@, "error")
                   ELSE IF r.kind = "null" THEN EnterLoop(@)
                   ELSE LET st == [@ EXCEPT !.seenIds = AddPage(@, r.activities),
                                           !.pageToken = r.nextPageToken]
                        IN  IF r.nextPageToken # None THEN st ELSE EnterLoop(st)]
    /\ UNCHANGED <<activeSessions, feed, created, hand, inter, fcall>>

\* listActivities(sessionId) as the loop calls it: without a page token, and
\* with the token of the answer left unread.
LatestPage(f) == {[r EXCEPT !.nextPageToken = None] : r \in listActivities(f, None)}

\* The sleep of an iteration ended and the latest page came back.
Poll(m, delays) ==
    /\ mon[m].pc = "sleep"
    /\ \E d \in DelaysOf(mon[m], delays), r \in LatestPage(feed[mon[m].session]) :
         mon' = [mon EXCEPT ![m] =
                   PollResult([@ EXCEPT !.clock = @ + d, !.polls = @ + 1], r)]
    /\ UNCHANGED <<activeSessions, feed, created, hand, inter, fcall>>

\* A payload that carries the approve button whatever its classification.
ApproveButtonOnEvery(type, sessionId) == sessionId

\* if (result.type === 'planGenerated'): the payload gets a row with one
\* button whose custom id is approve_plan:<sessionId>. The button is held by
\* the session id in its custom id; None is a payload without components.
ApproveButton(type, sessionId) == IF type = "planGenerated" THEN sessionId ELSE None

\* The notification a monitor delivered, as the channel received it.
Notification(st) ==
    [kind |-> "activity", id |-> st.cur.id, type |-> st.cur.type, poll |-> st.polls,
     approve |-> ApproveButton(st.cur.type, st.session)]

\* What translateToJapanesePersona can make of a text: some text, or none.
Translations(content) == IF content = <<>> THEN {"empty"} ELSE {"text", "empty"}

\* The awaits of one notification: translateToJapanesePersona returned (it
\* never throws), and if text or files are left, channel.send(payload)
\* returned or threw.
Deliver(m) ==
    /\ mon[m].pc = "deliver"
    /\ \E text \in Translations(mon[m].cur.content) :
         IF text = "text" \/ mon[m].cur.files > 0
         THEN \E ok \in BOOLEAN :
                mon' = [mon EXCEPT ![m] =
                          IF ok
                          THEN ProcessActivities(
                                 [@ EXCEPT !.out = Append(@, Notification(mon[m]))])
                          ELSE Stop(@, "error")]
         ELSE mon' = [mon EXCEPT ![m] = ProcessActivities(@)]
    /\ UNCHANGED <<activeSessions, feed, created, hand, inter, fcall>>

Filler(st) ==
    [kind |-> "filler", id |-> None, type |-> "unknown", poll |-> st.polls,
     approve |-> None]

\* channel.send(phrase) of a filler returned or threw.
MutterSendDone(m) ==
    /\ mon[m].pc = "mutter"
    /\ \E ok \in BOOLEAN :
         mon' = [mon EXCEPT ![m] =
                   IF ok THEN LoopHead(
                                [@ EXCEPT !.out = Append(@, Filler(mon[m])),
                                          !.lastMutterTime =
                                              ResetIdleTimer(@, mon[m].clock),
                                          !.fillerAt = mon[m].clock])
                   ELSE Stop(@, "error")]
    /\ UNCHANGED <<activeSessions, feed, created, hand, inter, fcall>>

\* ------------------------------------------------------- remote service
\* The shapes the activity at position i of a feed is drawn from. The code
\* reads the payload of the activities of the first page only (the poll
\* calls listActivities without a token); of the activities behind it the
\* back-fill and the seed pass read the identifier, so one shape stands for
\* all of them.
ShapesAt(shapes, i) ==
    IF i <= PageSize THEN shapes ELSE {CHOOSE shape \in shapes : TRUE}

\* The agent (or the user's turn) appends one activity to a session's feed.
RemoteAppend(s, shapes, limit) ==
    /\ s <= created
    /\ Len(feed[s]) < limit
    /\ \E shape \in ShapesAt(shapes, Len(feed[s]) + 1) :
         feed' = [feed EXCEPT ![s] = Append(@, shape)]
    /\ UNCHANGED <<activeSessions, created, mon, hand, inter, fcall>>

\* ------------------------------------------------ messageCreate handler
\* message.reply(...) was called with this text; the handler awaits it at pc.
Reply(st, text, pc) == [st EXCEPT !.replies = Append(@, text), !.pc = pc]

\* The catch at the end of the handler: the error is reported as a reply.
TopLevelCatch(st) == Reply(st, "error", "replyError")

\* Whether the message before message h in conversation c was answered with
\* the resolver's clarification, and no session has been mapped since.
AnsweredByClarification(h, c) ==
    IF h = 1 THEN FALSE
    ELSE /\ hand[h - 1].channel = c
         /\ hand[h - 1].pc = "done"
         /\ hand[h - 1].replies # <<>>
         /\ hand[h - 1].replies[Len(hand[h - 1].replies)] = "clarify"
         /\ activeSessions[c] = None

\* A test that takes no author for a bot.
AuthorIsBotNever(bot) == FALSE

\* if (message.author.bot) return;
AuthorIsBot(bot) == bot

\* A message arrives. Bot authors and messages that neither mention the bot
\* nor are direct messages are dropped; otherwise sendTyping is awaited.
Receive(h) ==
    /\ hand[h].pc = "idle"
    /\ IF h = 1 THEN TRUE ELSE hand[h - 1].pc # "idle"
    /\ \E c \in Conversations, bot \in BOOLEAN, addressed \in BOOLEAN :
         hand' = [hand EXCEPT ![h] =
                    IF AuthorIsBot(bot) \/ ~addressed
                    THEN [@ EXCEPT !.pc = "ignored", !.channel = c, !.fromBot = bot]
                    ELSE [@ EXCEPT !.pc = "typing", !.channel = c, !.fromBot = bot,
                                   !.awaiting = AnsweredByClarification(h, c)]]
    /\ UNCHANGED <<activeSessions, feed, created, mon, inter, fcall>>

\* sendTyping returned, or threw outside the handler's try block.
TypingDone(h) ==
    /\ hand[h].pc = "typing"
    /\ \E ok \in BOOLEAN :
         hand' = [hand EXCEPT ![h].pc = IF ok THEN "translate" ELSE "escaped"]
    /\ UNCHANGED <<activeSessions, feed, created, mon, inter, fcall>>

\* translateToEnglish returned (it never throws); the session map is read.
\* With a session the seed pass starts, without one the sources are listed.
TranslateEnglishDone(h) ==
    /\ hand[h].pc = "translate"
    /\ LET sessionId == activeSessions[hand[h].channel]
       IN  hand' = [hand EXCEPT ![h] =
                      IF sessionId # None
                      THEN [@ EXCEPT !.pc = "seed", !.session = sessionId,
                                     !.seenIds = {}, !.pageToken = None]
                      ELSE [@ EXCEPT !.pc = "listSources"]]
    /\ UNCHANGED <<activeSessions, feed, created, mon, inter, fcall>>

\* err.message.includes('404'), for a message that holds "404" or does not.
MessageIncludes404(has404) == has404

\* The catch of the active-session branch: an error whose message contains
\* "404" evicts the session, any other error goes to the top-level catch.
SessionCatch(h, call, status, has404) ==
    LET st == [hand[h] EXCEPT !.failedCall = call, !.status = status]
    IN  IF MessageIncludes404(has404)
        THEN /\ activeSessions' = [activeSessions EXCEPT ![hand[h].channel] = None]
             /\ hand' = [hand EXCEPT ![h] = Reply(st, "expired", "replyExpired")]
        ELSE /\ activeSessions' = activeSessions
             /\ hand' = [hand EXCEPT ![h] = TopLevelCatch(st)]

\* A call that sends the request a second time.
sendMessageToSessionTwice(calls) == calls + 2

\* sendMessageToSession(sessionId, englishContent): one POST of
\* sessionId:sendMessage.
sendMessageToSession(calls) == calls + 1

\* One page of the handler's seed pass came back; after the last one
\* sendMessageToSession is called.
SeedResponse(h) ==
    /\ hand[h].pc = "seed"
    /\ \E r \in listActivities(feed[hand[h].session], hand[h].pageToken) :
         IF r.kind = "throw"
         THEN \E has404 \in BOOLEAN : SessionCatch(h, "listActivities", None, has404)
         ELSE /\ activeSessions' = activeSessions
              /\ hand' = [hand EXCEPT ![h] =
                   IF r.kind = "null"
                   THEN [@ EXCEPT !.pc = "sendMessage", !.pageToken = None,
                                  !.sendCalls = sendMessageToSession(@),
                                  !.forwardedAt = Len(feed[hand[h].session])]
                   ELSE [@ EXCEPT !.seenIds = AddPage(@, r.activities),
                                  !.pageToken = r.nextPageToken,
                                  !.pc = IF r.nextPageToken # None THEN "seed"
                                         ELSE "sendMessage",
                                  !.sendCalls = IF r.nextPageToken # None THEN @
                                                ELSE sendMessageToSession(@),
                                  !.forwardedAt = Len(feed[hand[h].session])]]
    /\ UNCHANGED <<feed, created, mon, inter, fcall>>

\* sendMessageToSession returned or failed. On success the monitor is started
\* with the seed; a failure carries the response body in its message.
SendMessageResponse(h) ==
    /\ hand[h].pc = "sendMessage"
    /\ \/ /\ hand' = [hand EXCEPT ![h].pc = "done"]
          /\ mon' = [mon EXCEPT ![h] =
                       monitorSession(hand[h].session, hand[h].channel, TRUE,
                                      hand[h].seenIds, hand[h].forwardedAt)]
          /\ activeSessions' = activeSessions
       \/ /\ \E status \in FailureStatuses, bodyHas404 \in BOOLEAN :
               SessionCatch(h, "sendMessage", status, bodyHas404)
          /\ mon' = mon
    /\ UNCHANGED <<feed, created, inter, fcall>>

\* A test that takes no answer of listSources for an empty one.
NoSourcesNever(n) == FALSE

\* !sourcesData.sources || sourcesData.sources.length === 0
NoSources(n) == n = 0

\* listSources returned: a failure, no sources, or NumSources of them.
ListSourcesResponse(h) ==
    /\ hand[h].pc = "listSources"
    /\ \/ \E status \in FailureStatuses :
            hand' = [hand EXCEPT ![h] =
                       TopLevelCatch([@ EXCEPT !.listed = "failed",
                                               !.failedCall = "listSources",
                                               !.status = status])]
       \/ \E n \in {0, NumSources} :
            hand' = [hand EXCEPT ![h] =
                       LET st == [@ EXCEPT !.sources = n,
                                           !.listed = IF n = 0 THEN "empty" ELSE "some"]
                       IN  IF NoSources(n) THEN Reply(st, "noSources", "replyDone")
                           ELSE [st EXCEPT !.pc = "identify"]]
    /\ UNCHANGED <<activeSessions, feed, created, mon, inter, fcall>>

\* What identifySourceWithGemini can return as matchIndex: null, or a number.
MatchIndexes ==
    {[null |-> TRUE, index |-> 0]}
    \cup {[null |-> FALSE, index |-> i] : i \in -1 .. NumSources}

\* A test that also lets the index one past the last source through.
ValidMatchIndexOffByOne(i, n) == ~i.null /\ i.index >= 0 /\ i.index <= n

\* decision.matchIndex !== null && decision.matchIndex >= 0
\*   && decision.matchIndex < sources.length
ValidMatchIndex(i, n) == ~i.null /\ i.index >= 0 /\ i.index < n

\* identifySourceWithGemini returned its decision.
IdentifyDone(h) ==
    /\ hand[h].pc = "identify"
    /\ \E i \in MatchIndexes :
         hand' = [hand EXCEPT ![h] =
                    LET st == [@ EXCEPT !.resolverCalls = @ + 1]
                    IN  IF ValidMatchIndex(i, st.sources)
                        THEN Reply([st EXCEPT !.matchIndex = i.index + 1], "loading",
                                   "replyLoading")
                        ELSE Reply(st, "clarify", "replyDone")]
    /\ UNCHANGED <<activeSessions, feed, created, mon, inter, fcall>>

\* A reply that ends the handler returned or threw.
ReplyDone(h) ==
    /\ hand[h].pc \in {"replyDone", "replyExpired"}
    /\ \E ok \in BOOLEAN :
         hand' = [hand EXCEPT ![h] = IF ok THEN [@ EXCEPT !.pc = "done"]
                                      ELSE TopLevelCatch(@)]
    /\ UNCHANGED <<activeSessions, feed, created, mon, inter, fcall>>

\* The reply of the top-level catch returned or threw out of the handler.
ReplyErrorDone(h) ==
    /\ hand[h].pc = "replyError"
    /\ \E ok \in BOOLEAN :
         hand' = [hand EXCEPT ![h].pc = IF ok THEN "done" ELSE "escaped"]
    /\ UNCHANGED <<activeSessions, feed, created, mon, inter, fcall>>

\* The "loading" reply returned; createSessionFull is called.
ReplyLoadingDone(h) ==
    /\ hand[h].pc = "replyLoading"
    /\ \E ok \in BOOLEAN :
         hand' = [hand EXCEPT ![h] =
                    IF ok THEN [@ EXCEPT !.pc = "createSession",
                                         !.createCalls = @ + 1,
                                         !.createSource = hand[h].matchIndex]
                    ELSE TopLevelCatch(@)]
    /\ UNCHANGED <<activeSessions, feed, created, mon, inter, fcall>>

\* createSessionFull returned: a failure, a session without a name, or a
\* session; the session is mapped and a monitor without seen-set is started.
CreateSessionResponse(h) ==
    /\ hand[h].pc = "createSession"
    /\ \/ /\ \E status \in FailureStatuses :
               hand' = [hand EXCEPT ![h] =
                          TopLevelCatch([@ EXCEPT !.failedCall = "createSession",
                                                  !.status = status])]
          /\ UNCHANGED <<activeSessions, created, mon>>
       \/ /\ created < MaxSessions
          /\ created' = created + 1
          /\ \/ /\ hand' = [hand EXCEPT ![h] = TopLevelCatch(@)]
                /\ UNCHANGED <<activeSessions, mon>>
             \/ /\ activeSessions' = [activeSessions EXCEPT ![hand[h].channel] = created + 1]
                /\ hand' = [hand EXCEPT ![h].pc = "done", ![h].session = created + 1]
                /\ mon' = [mon EXCEPT ![h] =
                             monitorSession(created + 1, hand[h].channel, FALSE, {},
                                            Len(feed[created + 1]))]
    /\ UNCHANGED <<feed, inter, fcall>>

\* -------------------------------------------------- interactions handler
\* The custom id the monitor gives the approve button of a plan notification,
\* as split(':') cuts it.
CustomIdOf(s) == <<"approve_plan", s>>

\* customId && customId.startsWith('approve_plan:')
IsApprovePlan(customId) == Len(customId) >= 2 /\ customId[1] = "approve_plan"

\* customId.split(':')[1]
SessionOfCustomId(customId) == customId[2]

\* The components a user can act on: the approve button of a plan
\* notification of a session that exists, or some other component.
ComponentIds == {CustomIdOf(s) : s \in 1..created} \cup {<<"other">>}

\* A call that sends the request a second time.
approveSessionPlanTwice(calls, sessionId) == calls \o <<sessionId, sessionId>>

\* approveSessionPlan(sessionId): one POST of sessionId:approvePlan.
approveSessionPlan(calls, sessionId) == Append(calls, sessionId)

\* A verified interaction of a message component arrives. For an approve
\* button approveSessionPlan is called and awaited; any other component is
\* answered as an unknown type.
InteractionReceive ==
    /\ inter.pc = "idle"
    /\ \E id \in ComponentIds :
         inter' = IF IsApprovePlan(id)
                  THEN [inter EXCEPT !.pc = "approvePlan", !.customId = id,
                                     !.sessionId = SessionOfCustomId(id),
                                     !.calls = approveSessionPlan(@, SessionOfCustomId(id))]
                  ELSE [inter EXCEPT !.pc = "done", !.customId = id,
                                     !.response = "unknownType"]
    /\ UNCHANGED <<activeSessions, feed, created, mon, hand, fcall>>

\* approveSessionPlan returned or threw; the interaction is answered with the
\* approved message or with the error message.
ApprovePlanResponse ==
    /\ inter.pc = "approvePlan"
    /\ \E ok \in BOOLEAN :
         inter' = [inter EXCEPT !.pc = "done",
                                !.response = IF ok THEN "planApproved"
                                             ELSE "approvalFailed"]
    /\ UNCHANGED <<activeSessions, feed, created, mon, hand, fcall>>

InteractionStep ==
    \/ InteractionReceive
    \/ ApprovePlanResponse

\* ------------------------------------------------------------- the system
MonitorStep(m, delays) ==
    \/ BackfillResponse(m)
    \/ Poll(m, delays)
    \/ Deliver(m)
    \/ MutterSendDone(m)

HandlerStep(h) ==
    \/ Receive(h)
    \/ TypingDone(h)
    \/ TranslateEnglishDone(h)
    \/ SeedResponse(h)
    \/ SendMessageResponse(h)
    \/ ListSourcesResponse(h)
    \/ IdentifyDone(h)
    \/ ReplyDone(h)
    \/ ReplyErrorDone(h)
    \/ ReplyLoadingDone(h)
    \/ CreateSessionResponse(h)

\* The router with the monitors it starts.
Next ==
    \/ \E m \in Handlers : MonitorStep(m, RouterDelays)
    \/ \E h \in Handlers : HandlerStep(h)
    \/ \E s \in Sessions : RemoteAppend(s, RouterFeedShapes, MaxRouterFeed)
    \/ InteractionStep

Spec == Init /\ [][Next]_vars

\* ------------------------------------------------------- the router alone
\* The handlers and the remote service without the steps of the monitors the
\* handlers start: a monitor writes neither the session map nor a handler.
\* Of a feed the handlers read the identifiers only (the seed pass), so one
\* shape of activity stands for all.
SeedFeedShapes == {"AgentProgress"}

RouterNext ==
    \/ \E h \in Handlers : HandlerStep(h)
    \/ \E s \in Sessions : RemoteAppend(s, SeedFeedShapes, MaxRouterFeed)

RouterSpec == Init /\ [][RouterNext]_vars

\* What the program keeps of a conversation between two messages besides the
\* session map: the branch without a confident match only replies.
PendingSelection(c) == None

\* The state of a conversation as the next message finds it.
RouterState(c) ==
    IF activeSessions[c] # None THEN "ACTIVE_SESSION"
    ELSE IF PendingSelection(c) # None THEN "PENDING_SELECTION"
    ELSE "NO_SESSION"

\* ------------------------------------------------- one monitor run alone
\* The feeds of n activities of the given shapes.
RECURSIVE FeedsOver(_, _)
FeedsOver(shapes, n) ==
    IF n = 0 THEN {<<>>}
    ELSE {Append(f, shape) : f \in FeedsOver(shapes, n - 1),
                             shape \in ShapesAt(shapes, n)}

\* The feeds a session can hold.
FeedsOfLength(n) == FeedsOver(FeedShapes, n)

Feeds == UNION {FeedsOfLength(n) : n \in 0..MaxFeed}

\* The seen-sets the handler's seed pass can hand to a monitor over feed f:
\* what the feed held when the pass ended, or less when a fetch came back null.
Seeds(f) == {1..k : k \in 0..Len(f)}

\* The state right after a handler started a monitor for session 1 of
\* conversation 1: without a seen-set (session creation) or with one (a later
\* message), over whatever the feed held at that moment. Of the feed a seeded
\* run started over, the part its seed covers is recorded as its history.
MonitorInitOver(feeds) ==
    /\ inter = IdleInteraction
    /\ fcall = NoCall
    /\ activeSessions = [c \in Conversations |-> 1]
    /\ created = 1
    /\ \E f \in feeds : feed = [s \in Sessions |-> IF s = 1 THEN f ELSE <<>>]
    /\ hand = [h \in Handlers |->
                 IF h = 1 THEN [IdleHandler EXCEPT !.pc = "done", !.channel = 1,
                                                   !.session = 1]
                 ELSE IdleHandler]
    /\ \E seeded \in BOOLEAN :
         \E seed \in IF seeded THEN Seeds(feed[1]) ELSE {{}} :
           mon = [h \in Handlers |->
                    IF h = 1
                    THEN monitorSession(1, 1, seeded, seed,
                                        IF seeded THEN Cardinality(seed)
                                        ELSE Len(feed[1]))
                    ELSE UnusedMonitor]

MonitorInit == MonitorInitOver(Feeds)

MonitorNext ==
    \/ MonitorStep(1, SleepDelays)
    \/ RemoteAppend(1, FeedShapes, MaxFeed)

MonitorSpec == MonitorInit /\ [][MonitorNext]_vars

\* The event loop resumes a monitor whenever the call it awaits has returned.
MonitorFairSpec == MonitorSpec /\ WF_vars(MonitorStep(1, SleepDelays))

\* ------------------------- one monitor run over a feed with the user's turns
TurnFeeds == UNION {FeedsOver(TurnShapes, n) : n \in 0..MaxFeed}

TurnInit == MonitorInitOver(TurnFeeds)

TurnNext ==
    \/ MonitorStep(1, SleepDelays)
    \/ RemoteAppend(1, TurnShapes, MaxFeed)

TurnSpec == TurnInit /\ [][TurnNext]_vars

\* ------------------- one monitor run with a plan approval arriving beside it
ApprovalShapes == {"AgentPlan", "AgentProgress"}

ApprovalFeeds == UNION {FeedsOver(ApprovalShapes, n) : n \in 0..MaxFeed}

ApprovalInit == MonitorInitOver(ApprovalFeeds)

ApprovalNext ==
    \/ MonitorStep(1, SleepDelays)
    \/ RemoteAppend(1, ApprovalShapes, MaxFeed)
    \/ InteractionStep

ApprovalSpec == ApprovalInit /\ [][ApprovalNext]_vars

\* ----------------------------- one monitor run with a call that never returns
\* fetch(url, { headers }) of listActivities is given no signal and no
\* timeout: when the service never answers, the promise the monitor awaits
\* stays pending and no later line of the run is reached.
CallStalls(m) ==
    /\ mon[m].pc \in {"backfill", "sleep"}
    /\ mon' = [mon EXCEPT ![m].pc = "stalled"]
    /\ UNCHANGED <<activeSessions, feed, created, hand, inter, fcall>>

StallNext ==
    \/ MonitorNext
    \/ CallStalls(1)

\* The event loop resumes the monitor whenever the call it awaits has
\* returned; nothing makes the service answer.
StallFairSpec ==
    MonitorInit /\ [][StallNext]_vars /\ WF_vars(MonitorStep(1, SleepDelays))

\* ------------------ one monitor run over a feed that is empty when it starts
\* Every activity of the feed is appended while the run is in progress.
AppendInit == MonitorInitOver({<<>>})

AppendNext ==
    \/ MonitorStep(1, SleepDelays)
    \/ RemoteAppend(1, FeedShapes, MaxFeed)

AppendSpec == AppendInit /\ [][AppendNext]_vars

\* --------------------------------- the back-fill pass run twice on one feed
\* Two runs of monitorSession without a seen-set over one feed that nothing
\* is appended to; the second starts its pass when the first has ended its.
BackfillInit ==
    /\ inter = IdleInteraction
    /\ fcall = NoCall
    /\ activeSessions = [c \in Conversations |-> 1]
    /\ created = 1
    /\ \E f \in Feeds : feed = [s \in Sessions |-> IF s = 1 THEN f ELSE <<>>]
    /\ hand = [h \in Handlers |->
                 IF h <= 2 THEN [IdleHandler EXCEPT !.pc = "done", !.channel = 1,
                                                    !.session = 1]
                 ELSE IdleHandler]
    /\ mon = [h \in Handlers |->
                IF h <= 2 THEN monitorSession(1, 1, FALSE, {}, Len(feed[1]))
                ELSE UnusedMonitor]

BackfillNext ==
    \/ BackfillResponse(1)
    \/ mon[1].pc # "backfill" /\ BackfillResponse(2)

BackfillSpec == BackfillInit /\ [][BackfillNext]_vars

\* ------------------------------------------- formatActivity on its own
\* The artifact lists of up to n artifacts.
RECURSIVE ArtifactLists(_)
ArtifactLists(n) ==
    IF n = 0 THEN {<<>>}
    ELSE ArtifactLists(n - 1)
         \cup {Append(l, x) : l \in {k \in ArtifactLists(n - 1) : Len(k) = n - 1},
                              x \in ArtifactShapes}

\* The activity records the formatter is applied to: every combination of
\* the shapes of the four payload fields, with the artifacts absent or a list.
Activities ==
    {Shape("agent", plan, prog, outs, done, arts) :
       plan \in PlanShapes, prog \in ProgressShapes, outs \in OutputsShapes,
       done \in BOOLEAN,
       arts \in {NoArtifacts} \cup {ArtifactList(l) : l \in ArtifactLists(MaxArtifacts)}}

FormatInit ==
    /\ activeSessions = [c \in Conversations |-> None]
    /\ feed = [s \in Sessions |-> <<>>]
    /\ created = 0
    /\ mon = [h \in Handlers |-> UnusedMonitor]
    /\ hand = [h \in Handlers |-> IdleHandler]
    /\ inter = IdleInteraction
    /\ \E a \in Activities :
         fcall = [pc |-> "called", fn |-> "formatActivity", arg |-> a, result |-> None]

\* formatActivity(activity) returned or threw.
FormatReturn ==
    /\ fcall.pc = "called"
    /\ fcall.fn = "formatActivity"
    /\ fcall' = [fcall EXCEPT !.pc = "returned", !.result = formatActivity(fcall.arg)]
    /\ UNCHANGED <<activeSessions, feed, created, mon, hand, inter>>

FormatSpec == FormatInit /\ [][FormatReturn]_vars

\* ------------------------------------- the remote operations on their own
\* The two files of the repository that hold the client of the remote
\* service, and the operations each defines.
Files == {"part_005", "server.js"}

RemoteOperations ==
    {"listSources", "createSession", "sendMessage", "approvePlan", "listActivities"}

OperationsOf(file) ==
    IF file = "server.js" THEN RemoteOperations \ {"approvePlan"} ELSE RemoteOperations

\* A response of the service: its status (200, or a failure) and its body.
Ok == 200
Bodies == {"bodyA", "bodyB"}
Responses == [status : {Ok} \cup FailureStatuses, body : Bodies]

\* A source is backed by a repository (it has githubRepo) or is not.
Sources == [githubRepo : BOOLEAN]

\* What an operation hands to its caller: the parsed body or null as its
\* value, or an Error thrown, with what of the response the error holds.
Returned(value) == [kind |-> "result", value |-> value, status |-> None, body |-> "none"]
Threw(status, body) == [kind |-> "error", value |-> "none", status |-> status, body |-> body]

\* if (!response.ok) ... of each operation. The message of the Error of
\* listSources holds response.statusText, that of createSessionFull,
\* sendMessageToSession and approveSessionPlan the text of the body; no
\* Error holds response.status. listActivities returns null.
RemoteResult(op, response) ==
    IF response.status = Ok THEN Returned("json")
    ELSE CASE op = "listActivities" -> Returned("null")
           [] op = "listSources" -> Threw(None, "none")
           [] OTHER -> Threw(None, response.body)

\* The body of the POST of createSessionFull(source, userPrompt) in each file.
createSessionFull(file, source) ==
    [prompt |-> "userPrompt",
     source |-> "source.name",
     githubRepoContext |->
         IF ~source.githubRepo THEN "undefined"
         ELSE IF file = "server.js" THEN "startingBranch" ELSE "empty",
     automationMode |-> "AUTO_CREATE_PR",
     requirePlanApproval |-> IF file = "server.js" THEN "undefined" ELSE "true"]

NoRequest ==
    [prompt |-> "none", source |-> "none", githubRepoContext |-> "undefined",
     automationMode |-> "undefined", requirePlanApproval |-> "undefined"]

ClientInit ==
    /\ activeSessions = [c \in Conversations |-> None]
    /\ feed = [s \in Sessions |-> <<>>]
    /\ created = 0
    /\ mon = [h \in Handlers |-> UnusedMonitor]
    /\ hand = [h \in Handlers |-> IdleHandler]
    /\ inter = IdleInteraction
    /\ \E file \in Files, source \in Sources, response \in Responses :
         \E op \in OperationsOf(file) :
           fcall = [pc |-> "called", fn |-> op,
                    arg |-> [file |-> file, source |-> source, response |-> response],
                    result |-> None]

\* The operation sent its request and the response came back.
RemoteReturn ==
    /\ fcall.pc = "called"
    /\ fcall.fn \in RemoteOperations
    /\ fcall' = [fcall EXCEPT
                   !.pc = "returned",
                   !.result =
                       [request |-> IF fcall.fn = "createSession"
                                    THEN createSessionFull(fcall.arg.file, fcall.arg.source)
                                    ELSE NoRequest,
                        outcome |-> RemoteResult(fcall.fn, fcall.arg.response)]]
    /\ UNCHANGED <<activeSessions, feed, created, mon, hand, inter>>

ClientSpec == ClientInit /\ [][RemoteReturn]_vars

\* ------------------------------------ the interactions endpoint on its own
\* The files that define the endpoint.
EndpointFiles == {"part_005", "server.js", "part_000"}

\* What the X-Signature-Ed25519 header of a request can be, and the
\* X-Signature-Timestamp header.
Signatures == {"missing", "valid", "invalid"}
Timestamps == {"missing", "present"}

\* The bodies of a request: a ping, a click on an approve button or on some
\* other component, the two commands, and anything else.
Interactions == {"ping", "approve", "component", "wake", "sleep", "unknown"}

\* verifyKey(rawBody, signature, timestamp, DISCORD_PUBLIC_KEY): true for a
\* signature made with the key over the timestamp and the body; for any
\* other it returns false or throws.
verifyKey(signature, timestamp) ==
    IF signature = "valid" /\ timestamp = "present" THEN {"true"}
    ELSE {"false", "throws"}

\* The middleware in front of the handler: "next" or the line it sends with
\* status 401.
verifyDiscordRequest(signature, timestamp, isValidRequest) ==
    IF signature = "missing" \/ timestamp = "missing" THEN "Missing Discord headers"
    ELSE IF isValidRequest = "throws" THEN "Verification Internal Error"
    ELSE IF isValidRequest = "false" THEN "Bad Request Signature"
    ELSE "next"

\* The verify hook of express.json in part_000, the only verification of
\* that file: it logs the result of verifyKey and lets the request pass.
verifyHook(signature, timestamp, isValidRequest) == "next"

\* What stands between a request and the handler of the file.
Verification(file, signature, timestamp, isValidRequest) ==
    IF file = "part_000" THEN verifyHook(signature, timestamp, isValidRequest)
    ELSE verifyDiscordRequest(signature, timestamp, isValidRequest)

\* The control actions the handler of the file starts for an interaction:
\* approveSessionPlan, setMinInstances(1), setMinInstances(0), client.login
\* and client.destroy.
ControlActions(file, interaction, isReady) ==
    CASE interaction = "approve" /\ file = "part_005" -> {"approvePlan"}
      [] interaction = "wake" ->
           {"setMinInstances(1)"} \cup (IF isReady THEN {} ELSE {"login"})
      [] interaction = "sleep" ->
           {"setMinInstances(0)"}
             \cup (IF isReady /\ file # "part_000" THEN {"destroy"} ELSE {})
      [] OTHER -> {}

\* The status the handler of the file answers an interaction with.
HandlerStatus(file, interaction) ==
    IF interaction \in {"ping", "wake", "sleep"} THEN 200
    ELSE IF interaction = "approve" /\ file = "part_005" THEN 200
    ELSE 400

EndpointInit ==
    /\ activeSessions = [c \in Conversations |-> None]
    /\ feed = [s \in Sessions |-> <<>>]
    /\ created = 0
    /\ mon = [h \in Handlers |-> UnusedMonitor]
    /\ hand = [h \in Handlers |-> IdleHandler]
    /\ inter = IdleInteraction
    /\ \E file \in EndpointFiles, signature \in Signatures, timestamp \in Timestamps,
          interaction \in Interactions, isReady \in BOOLEAN :
         fcall = [pc |-> "received", fn |-> "interactions",
                  arg |-> [file |-> file, signature |-> signature,
                           timestamp |-> timestamp, interaction |-> interaction,
                           isReady |-> isReady],
                  result |-> [status |-> 0, line |-> "none", actions |-> {}]]

\* The request reaches the verification of the file: it is answered with 401
\* or handed to the handler.
RequestVerify ==
    /\ fcall.pc = "received"
    /\ fcall.fn = "interactions"
    /\ \E isValidRequest \in verifyKey(fcall.arg.signature, fcall.arg.timestamp) :
         LET line == Verification(fcall.arg.file, fcall.arg.signature,
                                  fcall.arg.timestamp, isValidRequest)
         IN  fcall' = IF line = "next"
                      THEN [fcall EXCEPT !.pc = "handler"]
                      ELSE [fcall EXCEPT !.pc = "answered",
                                         !.result = [status |-> 401, line |-> line,
                                                     actions |-> {}]]
    /\ UNCHANGED <<activeSessions, feed, created, mon, hand, inter>>

\* The handler answers the interaction and starts its control actions.
RequestHandle ==
    /\ fcall.pc = "handler"
    /\ fcall.fn = "interactions"
    /\ fcall' = [fcall EXCEPT
                   !.pc = "answered",
                   !.result = [status |-> HandlerStatus(fcall.arg.file,
                                                        fcall.arg.interaction),
                               line |-> "handled",
                               actions |-> ControlActions(fcall.arg.file,
                                                          fcall.arg.interaction,
                                                          fcall.arg.isReady)]]
    /\ UNCHANGED <<activeSessions, feed, created, mon, hand, inter>>

EndpointNext == RequestVerify \/ RequestHandle

EndpointSpec == EndpointInit /\ [][EndpointNext]_vars

\* ------------------------------- waitForAgentResponse of server.js alone
\* for (let i = 0; i < 20; i++)
MaxAttempts == 20

\* The activities of a list, as far as waitForAgentResponse reads them.
ListedActivities ==
    {[originator |-> "agent", type |-> "message"],
     [originator |-> "agent", type |-> "thinking"],
     [originator |-> "user", type |-> "message"]}

\* What a call of listActivities of server.js ends with: a rejected fetch,
\* null for a response that is not ok, or the parsed body, which has an
\* activities field or has none.
ListOutcomes ==
    {[kind |-> "rejected", activities |-> <<>>],
     [kind |-> "null", activities |-> <<>>],
     [kind |-> "noActivities", activities |-> <<>>]}
      \cup {[kind |-> "data", activities |-> acts] :
               acts \in UNION {[1..n -> ListedActivities] : n \in 0..MaxListed}}

\* The reply waitForAgentResponse returns.
JulesReplied == "Jules replied!"

\* One pass of the loop body over what listActivities ended with: a
\* rejection goes through, null and a body without the field go to the next
\* pass, and of a list the last activity is read, which an empty list
\* (truthy in the test) does not have.
Examine(r) ==
    IF r.kind = "rejected" THEN "throws"
    ELSE IF r.kind # "data" THEN "continue"
    ELSE IF Len(r.activities) = 0 THEN "throws"
    ELSE LET last == r.activities[Len(r.activities)]
         IN  IF last.originator = "agent" /\ last.type # "thinking"
             THEN "return" ELSE "continue"

\* waitForAgentResponse was called for the session the conversation maps,
\* after the instruction was sent to it or after it was created.
WaitInit ==
    /\ activeSessions = [c \in Conversations |-> 1]
    /\ feed = [s \in Sessions |-> <<>>]
    /\ created = 1
    /\ mon = [h \in Handlers |-> UnusedMonitor]
    /\ hand = [h \in Handlers |-> IdleHandler]
    /\ inter = IdleInteraction
    /\ \E caller \in {"sendMessageToSession", "createSessionFull"} :
         fcall = [pc |-> "timer", fn |-> "waitForAgentResponse",
                  arg |-> [sessionId |-> 1, after |-> caller, i |-> 0, polls |-> 0],
                  result |-> [value |-> "none", after |-> "none"]]

\* The three seconds of a pass are over and listActivities is called; with
\* i at 20 the loop has ended and null is returned.
WaitTimer ==
    /\ fcall.pc = "timer"
    /\ fcall.fn = "waitForAgentResponse"
    /\ fcall' = IF fcall.arg.i < MaxAttempts
                THEN [fcall EXCEPT !.pc = "listActivities",
                                   !.arg.polls = @ + 1]
                ELSE [fcall EXCEPT !.pc = "returned",
                                   !.result = [value |-> "null", after |-> "timeout"]]
    /\ UNCHANGED <<activeSessions, feed, created, mon, hand, inter>>

\* listActivities ended and the loop body ran over what it ended with.
WaitListReturn ==
    /\ fcall.pc = "listActivities"
    /\ fcall.fn = "waitForAgentResponse"
    /\ \E r \in ListOutcomes :
         LET step == Examine(r)
             after == IF r.kind = "data" /\ r.activities = <<>> THEN "empty"
                      ELSE r.kind
         IN  fcall' =
               CASE step = "continue" ->
                      [fcall EXCEPT !.pc = "timer", !.arg.i = @ + 1]
                 [] step = "return" ->
                      [fcall EXCEPT !.pc = "returned",
                                    !.result = [value |-> JulesReplied, after |-> after]]
                 [] OTHER ->
                      [fcall EXCEPT !.pc = "threw",
                                    !.result = [value |-> "none", after |-> after]]
    /\ UNCHANGED <<activeSessions, feed, created, mon, hand, inter>>

WaitNext == WaitTimer \/ WaitListReturn

WaitSpec == WaitInit /\ [][WaitNext]_vars

\* ============================================================ properties
Last(q) == q[Len(q)]

\* The activity identifiers a monitor has delivered to its channel, in order.
Delivered(m) == SelectSeq(mon[m].out, LAMBDA e : e.kind = "activity")

\* How often monitors of session s on channel c delivered activity id.
RECURSIVE DeliveriesOf(_, _, _, _)
DeliveriesOf(ms, c, s, id) ==
    IF ms = {} THEN 0
    ELSE LET m == CHOOSE x \in ms : TRUE
             n == IF mon[m].channel = c /\ mon[m].session = s
                  THEN Len(SelectSeq(Delivered(m), LAMBDA e : e.id = id)) ELSE 0
         IN  n + DeliveriesOf(ms \ {m}, c, s, id)

\* The identifiers a monitor holds between the filter and the send: the
\* notification being translated or sent, and the rest of the page.
InFlight(m) ==
    {mon[m].queue[i].id : i \in DOMAIN mon[m].queue}
    \cup (IF mon[m].pc = "deliver" THEN {mon[m].cur.id} ELSE {})

\* C1: within one run of monitorSession an activity identifier is delivered at
\* most once, however often the polls return it: no identifier occurs twice
\* among the run's deliveries, and none that was delivered is picked up again.
C1_DeliveredAtMostOnce ==
    \A m \in Handlers :
      /\ \A i, j \in DOMAIN Delivered(m) :
           i # j => Delivered(m)[i].id # Delivered(m)[j].id
      /\ \A i \in DOMAIN Delivered(m) : Delivered(m)[i].id \notin InFlight(m)

\* C1 witness: a later poll returned the first page again, with an activity
\* the run had delivered in an earlier poll next to one it had not.
C1_Witness ==
    \E i, j \in DOMAIN Delivered(1) :
      /\ Delivered(1)[i].poll < Delivered(1)[j].poll
      /\ Delivered(1)[i].id < Delivered(1)[j].id
      /\ Delivered(1)[j].id <= PageSize

\* C2: over all the monitor runs the router starts for one session of one
\* conversation, an activity identifier reaches the channel at most once.
C2_OncePerSession ==
    \A c \in Conversations, s \in Sessions, id \in 1..MaxRouterFeed :
      DeliveriesOf(Handlers, c, s, id) <= 1

\* C3: a monitor started without a seen-set never delivers an activity that
\* was in the feed when it started, whatever the back-fill fetches returned.
C3_NoHistoryReplayed ==
    \A m \in Handlers :
      ~mon[m].seeded =>
        \A i \in DOMAIN Delivered(m) : Delivered(m)[i].id > mon[m].history

\* C4: a monitor started after a forwarded message never delivers an activity
\* that was in the feed before the message was forwarded, whatever the fetches
\* of the seed pass returned.
C4_SeedCoversHistory ==
    \A m \in Handlers :
      mon[m].seeded =>
        \A i \in DOMAIN Delivered(m) : Delivered(m)[i].id > mon[m].history

\* C5: the notifications a monitor delivers for the new activities of one
\* page reach the channel in the order of the page.
C5_PageOrderKept ==
    \A m \in Handlers :
      \A i, j \in DOMAIN Delivered(m) :
        (i < j /\ Delivered(m)[i].poll = Delivered(m)[j].poll)
          => Delivered(m)[i].id < Delivered(m)[j].id

\* C5 witness: one poll delivered two notifications.
C5_Witness ==
    \E i, j \in DOMAIN Delivered(1) :
      i < j /\ Delivered(1)[i].poll = Delivered(1)[j].poll

\* C6: a monitor that stops on a session-completed activity has delivered the
\* completion notification as its last message.
C6_CompletionDelivered ==
    \A m \in Handlers :
      mon[m].reason = "completed" =>
        /\ mon[m].out # <<>>
        /\ Last(mon[m].out).type = "sessionCompleted"

\* C7: a monitor stops only on a session-completed activity or at its ceiling;
\* a failed fetch or a failed send never ends it.
C7_StopsOnlyByCompletionOrCeiling ==
    \A m \in Handlers :
      mon[m].pc = "terminated" => mon[m].reason \in {"completed", "timeout"}

\* C8: every run of monitorSession eventually terminates, provided each call
\* it awaits returns.
C8_EveryRunTerminates == <>(mon[1].pc = "terminated")

\* C9: the waiting flag is true at the start of the loop, true after an agent
\* activity with a progress-update payload was handled, and false after one
\* with a plan-generated or an outputs payload was handled.
C9_WaitingFollowsPayload ==
    \A m \in Handlers :
      /\ (mon[m].pc = "sleep" /\ mon[m].polls = 0) => mon[m].isWaitingForResponse
      /\ mon[m].lastAgent # <<>> =>
           LET e == mon[m].lastAgent[1]
               a == Activity(e.shape)
           IN  /\ a.progressUpdated # "absent" => e.waiting
               /\ (a.planGenerated # "absent" \/ a.outputs # "absent") => ~e.waiting

\* C10: a filler is sent only in a poll that observed no new activity, only
\* while the waiting flag is true, and only when more than the idle threshold
\* has passed since the idle timer was last reset.
C10_FillerOnlyWhenIdleAndWaiting ==
    \A m \in Handlers :
      mon[m].pc = "mutter" =>
        /\ mon[m].queue = <<>>
        /\ \A i \in DOMAIN mon[m].out : mon[m].out[i].poll < mon[m].polls
        /\ mon[m].isWaitingForResponse
        /\ mon[m].clock - mon[m].lastMutterTime > IdleThreshold

\* C10 witness: a filler is on its way in a poll after a notification was
\* delivered, so the timer had been reset by a new activity before.
C10_Witness ==
    /\ mon[1].pc = "mutter"
    /\ Delivered(1) # <<>>

\* Whether activity id of session s is a turn of the user.
UserAuthored(s, id) == Activity(feed[s][id]).originator = "user"

\* C11: an activity whose originator is the user is never sent to the channel
\* (no notification delivered or on its way is one), never reaches the code
\* that sets the waiting flag or ends the run (the flag is the one the last
\* agent activity left, and a run that ended as completed ended on an agent
\* activity), and its identifier is in the seen-set once the loop skipped it.
C11_UserTurnsSkipped ==
    \A m \in Handlers :
      /\ \A i \in DOMAIN Delivered(m) :
           /\ ~UserAuthored(mon[m].session, Delivered(m)[i].id)
           /\ Delivered(m)[i].id \notin mon[m].skipped
      /\ mon[m].pc = "deliver" => ~UserAuthored(mon[m].session, mon[m].cur.id)
      /\ mon[m].skipped \subseteq mon[m].seenIds
      /\ \A id \in mon[m].skipped : UserAuthored(mon[m].session, id)
      /\ mon[m].lastAgent # <<>> =>
           Activity(mon[m].lastAgent[1].shape).originator # "user"
      /\ mon[m].pc \in {"sleep", "deliver", "mutter"} =>
           mon[m].isWaitingForResponse =
             (IF mon[m].lastAgent = <<>> THEN TRUE ELSE mon[m].lastAgent[1].waiting)
      /\ mon[m].reason = "completed" =>
           /\ mon[m].lastAgent # <<>>
           /\ Activity(mon[m].lastAgent[1].shape).originator # "user"

\* C11 witness: the loop skipped a turn of the user after a plan had cleared
\* the waiting flag, and the run goes on with the flag still cleared.
C11_Witness ==
    /\ mon[1].pc = "sleep"
    /\ \E id \in mon[1].skipped : feed[1][id] = "UserProgress"
    /\ ~mon[1].isWaitingForResponse

\* Handler h has returned after replying with this text last.
ReturnedWith(h, text) ==
    /\ hand[h].pc = "done"
    /\ hand[h].replies # <<>>
    /\ Last(hand[h].replies) = text

\* What holds of a handler that called createSessionFull.
C13_CallState ==
    \A h \in Handlers :
      /\ hand[h].createCalls <= 1
      /\ hand[h].createCalls = 1 =>
           /\ hand[h].resolverCalls = 1
           /\ hand[h].matchIndex \in 1..hand[h].sources
           /\ hand[h].createSource = hand[h].matchIndex
      /\ ReturnedWith(h, "loading") =>
           /\ hand[h].createCalls = 1
           /\ hand[h].session \in Sessions
           /\ mon[h].pc # "unused"
           /\ mon[h].session = hand[h].session
           /\ mon[h].channel = hand[h].channel
           /\ ~mon[h].seeded

\* What the step in which createSessionFull returns a session does.
C13_CreateStep ==
    \A h \in Handlers :
      (hand[h].pc = "createSession" /\ hand'[h].pc = "done") =>
        /\ created' = created + 1
        /\ hand'[h].session = created'
        /\ activeSessions' =
             [activeSessions EXCEPT ![hand[h].channel] = hand'[h].session]
        /\ mon[h].pc = "unused"
        /\ mon'[h].pc = "backfill"
        /\ \A m \in Handlers \ {h} : mon'[m] = mon[m]

C14_EmptyState ==
    \A h \in Handlers :
      hand[h].listed = "empty" =>
        /\ hand[h].replies # <<>>
        /\ hand[h].replies[1] = "noSources"
        /\ hand[h].resolverCalls = 0
        /\ hand[h].createCalls = 0
        /\ mon[h].pc = "unused"

\* The steps of such a handler leave the session map and the monitors alone.
C14_EmptyStep ==
    \A h \in Handlers :
      (hand'[h].listed = "empty" /\ hand'[h] # hand[h]) =>
        /\ activeSessions' = activeSessions
        /\ mon' = mon
        /\ created' = created

\* C14: without a mapped session, when listSources returns an empty list the
\* handler replies with the fixed no-sources message, calls neither the
\* resolver nor createSessionFull, starts no monitor and leaves the session
\* map as it is.
C14_EmptySourcesOnlyReplies == [](C14_EmptyState) /\ [][C14_EmptyStep]_vars

\* C14 witness: a handler returned after the no-sources reply and its
\* conversation has no session.
C14_Witness ==
    \E h \in Handlers :
      /\ hand[h].listed = "empty"
      /\ ReturnedWith(h, "noSources")
      /\ activeSessions[hand[h].channel] = None

\* C15: after the resolver returned no confident match and its clarification
\* was forwarded, the conversation holds a pending selection (the candidate
\* sources and the instruction) and is in PENDING_SELECTION.
C15_ClarificationStoresSelection ==
    \A h \in Handlers :
      (ReturnedWith(h, "clarify") /\ activeSessions[hand[h].channel] = None) =>
        /\ PendingSelection(hand[h].channel) # None
        /\ RouterState(hand[h].channel) = "PENDING_SELECTION"

\* C16: a message that follows a clarification is read as an index into the
\* stored candidates: its handler does not consult the resolver again.
C16_SelectionSkipsResolver ==
    \A h \in Handlers : hand[h].awaiting => hand[h].resolverCalls = 0

\* C17: when sendMessageToSession fails with status NotFound, whatever the
\* response body, the handler removes the conversation's session, tells the
\* user that the session expired and starts no monitor.
C17_NotFoundEvicts ==
    [][\A h \in Handlers :
         (/\ hand[h].pc = "sendMessage"
          /\ hand'[h].failedCall = "sendMessage"
          /\ hand'[h].status = NotFound) =>
           /\ activeSessions'[hand[h].channel] = None
           /\ Last(hand'[h].replies) = "expired"
           /\ mon' = mon]_vars

\* C18: when listSources, createSessionFull or sendMessageToSession fails
\* with a status other than NotFound, whatever the response body, the user
\* gets the failure message and the session map stays as it was.
C18_OtherFailuresKeepMap ==
    [][\A h \in Handlers :
         (/\ hand[h].failedCall = "none"
          /\ hand'[h].failedCall \in {"listSources", "createSession", "sendMessage"}
          /\ hand'[h].status # NotFound) =>
           /\ activeSessions' = activeSessions
           /\ Last(hand'[h].replies) = "error"]_vars

\* C19: no error raised while a message is handled leaves the handler.
C19_NoErrorEscapes == \A h \in Handlers : hand[h].pc # "escaped"

\* What holds of an interaction once it was received.
C20_CallState ==
    /\ (inter.pc # "idle" /\ IsApprovePlan(inter.customId)) =>
         inter.calls = <<inter.customId[2]>>
    /\ (inter.pc # "idle" /\ ~IsApprovePlan(inter.customId)) => inter.calls = <<>>
    /\ inter.pc = "idle" => inter.calls = <<>>

\* The steps of the interactions handler leave the session map and the
\* monitors as they are.
C20_ApproveStep ==
    inter' # inter =>
      /\ activeSessions' = activeSessions
      /\ \A m \in Handlers :
           /\ mon'[m].seenIds = mon[m].seenIds
           /\ mon'[m].isWaitingForResponse = mon[m].isWaitingForResponse
           /\ mon'[m].pc = mon[m].pc

\* C20: a plan-approval action calls approveSessionPlan once, for the session
\* id in the custom id of the button, and whether the call succeeds or fails
\* it changes neither the session map nor the seen-set or the waiting flag of
\* any monitor.
C20_ApprovalCallsOnceAndFrames == [](C20_CallState) /\ [][C20_ApproveStep]_vars

\* C20 witness: the approval of a plan a running monitor had delivered (its
\* waiting flag cleared, its seen-set not empty) has failed.
C20_Witness ==
    /\ inter.pc = "done"
    /\ inter.response = "approvalFailed"
    /\ mon[1].pc = "sleep"
    /\ ~mon[1].isWaitingForResponse
    /\ mon[1].seenIds # {}
    /\ \E i \in DOMAIN Delivered(1) : Delivered(1)[i].approve = inter.sessionId

\* C21: a delivered notification carries the approve button exactly when its
\* classification is planGenerated, the custom id of the button yields the id
\* of the session the delivering monitor is bound to, and a filler carries
\* no button.
C21_ApproveButtonOnPlanOnly ==
    \A m \in Handlers : \A i \in DOMAIN mon[m].out :
      LET n == mon[m].out[i]
      IN  /\ n.kind = "filler" => n.approve = None
          /\ n.kind = "activity" =>
                /\ (n.approve # None) <=> (n.type = "planGenerated")
                /\ n.approve # None =>
                      /\ IsApprovePlan(CustomIdOf(n.approve))
                      /\ SessionOfCustomId(CustomIdOf(n.approve)) = mon[m].session

\* C21 witness: one run delivered a plan with the button of its session and
\* a notification of another classification without one.
C21_Witness ==
    \E i, j \in DOMAIN Delivered(1) :
      /\ Delivered(1)[i].type = "planGenerated"
      /\ Delivered(1)[i].approve = mon[1].session
      /\ Delivered(1)[j].type \in {"progressUpdated", "outputs"}
      /\ Delivered(1)[j].approve = None

\* C22: at most one monitor run is in progress for a session at any time.
C22_OneMonitorPerSession ==
    \A s \in Sessions :
      Cardinality({m \in Handlers : /\ mon[m].session = s
                                    /\ mon[m].pc \notin {"unused", "terminated"}}) <= 1

\* formatActivity was applied to an activity and is back.
Formatted == fcall.pc = "returned" /\ fcall.fn = "formatActivity"

\* The payload kinds an activity carries: a plan generated with its plan, a
\* progress update, an outputs list, the session-completed mark.
Carries(a) ==
    (IF a.planGenerated \in {"noSteps", "emptySteps", "steps"} THEN {"planGenerated"} ELSE {})
    \cup (IF a.progressUpdated # "absent" THEN {"progressUpdated"} ELSE {})
    \cup (IF a.outputs # "absent" THEN {"outputs"} ELSE {})
    \cup (IF a.sessionCompleted THEN {"sessionCompleted"} ELSE {})

Mentions(content, word) == \E i \in DOMAIN content : content[i] = word

\* C23: a notification has the type of the first payload kind the activity
\* carries in the order plan, progress, outputs, completed; with a plan it
\* shows the steps of the plan if there are any and never the pull request.
C23_FirstMatchWins ==
    Formatted /\ ~fcall.result.null /\ ~fcall.result.throws =>
      LET a == fcall.arg
          r == fcall.result
          kinds == Carries(a)
      IN  /\ "planGenerated" \in kinds => r.type = "planGenerated"
          /\ kinds \cap {"planGenerated"} = {} /\ "progressUpdated" \in kinds =>
                r.type = "progressUpdated"
          /\ kinds \cap {"planGenerated", "progressUpdated"} = {} /\ "outputs" \in kinds =>
                r.type = "outputs"
          /\ kinds = {"sessionCompleted"} => r.type = "sessionCompleted"
          /\ "planGenerated" \in kinds =>
                /\ ~Mentions(r.content, "pullRequest")
                /\ ~Mentions(r.content, "title")
                /\ ~Mentions(r.content, "completed")
                /\ a.planGenerated \in {"emptySteps", "steps"} => r.content[1] = "plan"

\* C23 witness: an activity with the steps of a plan, a progress update, a
\* pull request among its outputs and the session-completed mark came back as
\* a plan.
C23_Witness ==
    /\ Formatted
    /\ fcall.arg.planGenerated = "steps"
    /\ fcall.arg.progressUpdated = "description"
    /\ fcall.arg.outputs = "pullRequest"
    /\ fcall.arg.sessionCompleted
    /\ fcall.result.type = "planGenerated"
    /\ fcall.result.content = <<"plan">>

\* The artifact list of an activity, empty when the field is absent.
ItemsOf(a) == IF a.artifacts.present THEN a.artifacts.items ELSE <<>>

\* C24: formatActivity never throws, whatever the shapes of the plan, of the
\* outputs list and of the artifacts, and for an activity with none of the
\* four payloads and no artifact it returns null.
C24_Total ==
    Formatted =>
      /\ ~fcall.result.throws
      /\ Carries(fcall.arg) = {} /\ ItemsOf(fcall.arg) = <<>> => fcall.result.null

\* C24 witness: a plan without steps next to an empty outputs list and a
\* list of artifacts came back as a notification; so did nothing at all, as
\* null, in another call.
C24_Witness ==
    /\ Formatted
    /\ fcall.arg.planGenerated = "noSteps"
    /\ fcall.arg.outputs = "empty"
    /\ fcall.arg.artifacts.present
    /\ Len(fcall.arg.artifacts.items) = MaxArtifacts
    /\ ~fcall.result.null
    /\ ~fcall.result.throws

\* C25 as claimed: null when there is no primary text and no artifact, null
\* whenever none of the four payload kinds matched, and no primary text for
\* an outputs list without a pull request.
C25_NullWhenUnmatched ==
    Formatted =>
      LET a == fcall.arg
          r == fcall.result
      IN  /\ formatPrimary(a).content = <<>> /\ ItemsOf(a) = <<>> => r.null
          /\ Carries(a) = {} => r.null
          /\ FirstMatch(a) = "outputs" /\ a.outputs # "pullRequest" =>
                formatPrimary(a).content = <<>>

\* C25 amended: null exactly when there is neither primary text nor text or
\* attachment of an artifact; an activity none of the four payload kinds
\* matched whose artifacts yield something is returned with the type
\* unknown and the artifacts' text alone; an outputs list without a pull
\* request yields no primary text.
C25_NullWhenNothingToShow ==
    Formatted =>
      LET a == fcall.arg
          r == fcall.result
          shown == artifactContent(ItemsOf(a))
      IN  /\ r.null <=> (/\ formatPrimary(a).content = <<>>
                          /\ shown = <<>>
                          /\ artifactFiles(ItemsOf(a)) = 0)
          /\ Carries(a) = {} /\ ~r.null => r.type = "unknown" /\ r.content = shown
          /\ FirstMatch(a) = "outputs" /\ a.outputs # "pullRequest" =>
                /\ formatPrimary(a).content = <<>>
                /\ ~r.null => r.content = shown

\* C25 witness: an activity without any of the four payloads and with the
\* transcript of a command came back as a notification of type unknown.
C25_Witness ==
    /\ Formatted
    /\ Carries(fcall.arg) = {}
    /\ fcall.arg.planGenerated = "absent"
    /\ ItemsOf(fcall.arg) = <<"bash">>
    /\ ~fcall.result.null
    /\ fcall.result.type = "unknown"

\* C26: a monitor whose listActivities call stalls still terminates: the call
\* is given up after a timeout and the run ends by its ceiling at the latest.
C26_StalledCallAbandoned ==
    \A m \in Handlers : (mon[m].pc = "stalled") ~> (mon[m].pc = "terminated")

\* A filler is sent only more than the idle threshold after the last poll
\* that found a new activity and after the last filler.
C27_FillerState ==
    \A m \in Handlers :
      mon[m].pc = "mutter" =>
        /\ mon[m].newAt # NoTime => mon[m].clock - mon[m].newAt > IdleThreshold
        /\ mon[m].fillerAt # NoTime => mon[m].clock - mon[m].fillerAt > IdleThreshold

\* A poll that adds to the seen-set (it found a new activity, of the user or
\* not, displayable or not) and a filler that was sent leave the idle timer
\* at the time of the step, in every run that goes on.
C27_ResetStep ==
    \A m \in Handlers :
      (/\ mon'[m].pc # "terminated"
       /\ \/ mon[m].pc = "sleep" /\ mon'[m].seenIds # mon[m].seenIds
          \/ mon[m].pc = "mutter" /\ mon'[m] # mon[m])
        => mon'[m].lastMutterTime = mon'[m].clock

\* C27: the idle timer is reset in every poll that observes a new activity
\* and whenever a filler is sent, so that two fillers of one run are more
\* than the idle threshold apart and no filler follows a new activity within
\* the threshold.
C27_IdleTimerReset == [](C27_FillerState) /\ [][C27_ResetStep]_vars

\* C27 witness: a filler is due in a run whose earlier poll found a new
\* activity of the user, which it skipped.
C27_Witness ==
    /\ mon[1].pc = "mutter"
    /\ mon[1].newAt # NoTime
    /\ mon[1].skipped # {}
    /\ mon[1].out = <<>>

\* A remote operation was called and is back.
Called(op) == fcall.pc = "returned" /\ fcall.fn = op

\* C28: on a non-success response each of the five remote operations throws
\* an error that holds the status and the body of the response; none hands
\* the non-success back as a value.
C28_FailureCarriesStatusAndBody ==
    \A op \in RemoteOperations :
      Called(op) /\ fcall.arg.response.status # Ok =>
        /\ fcall.result.outcome.kind = "error"
        /\ fcall.result.outcome.status = fcall.arg.response.status
        /\ fcall.result.outcome.body = fcall.arg.response.body

\* C29: every createSession request sets the automation mode that makes the
\* agent open a pull request, and asks for plan approval whenever the source
\* is backed by a repository.
C29_CreateSessionRequest ==
    Called("createSession") =>
      /\ fcall.result.request.automationMode = "AUTO_CREATE_PR"
      /\ fcall.arg.source.githubRepo => fcall.result.request.requirePlanApproval = "true"

\* What holds of the handler of a message whose author is a bot: it has
\* returned without a reply and without a call, and started no monitor.
C30_BotState ==
    \A h \in Handlers :
      hand[h].fromBot =>
        /\ hand[h].pc = "ignored"
        /\ hand[h].replies = <<>>
        /\ hand[h].listed = "no"
        /\ hand[h].resolverCalls = 0
        /\ hand[h].createCalls = 0
        /\ hand[h].failedCall = "none"
        /\ hand[h].session = None
        /\ mon[h].pc = "unused"

\* The step that takes the message of a bot changes neither the session map
\* nor a monitor nor anything at the remote service.
C30_BotStep ==
    \A h \in Handlers :
      hand'[h].fromBot /\ ~hand[h].fromBot =>
        /\ activeSessions' = activeSessions
        /\ mon' = mon
        /\ created' = created
        /\ feed' = feed

\* C30: a message whose author is a bot causes no remote call, no reply, no
\* monitor start and no change of the session map.
C30_BotMessagesIgnored == [](C30_BotState) /\ [][C30_BotStep]_vars

\* C30 witness: the message of a bot, addressed or not, arrived in a
\* conversation that has a session and a monitor, and was dropped.
C30_Witness ==
    /\ activeSessions[1] # None
    /\ mon[1].pc # "unused"
    /\ hand[2].fromBot
    /\ hand[2].channel = 1
    /\ hand[2].pc = "ignored"

\* The back-fill pass of a run has ended and its loop has not polled yet.
PassEnded(m) == mon[m].pc = "sleep" /\ mon[m].polls = 0

\* C31: the second back-fill pass over an unchanged feed adds nothing to the
\* seen-set the first pass built, and neither pass sends anything.
C31_BackfillIdempotent ==
    /\ \A m \in {1, 2} : mon[m].out = <<>>
    /\ PassEnded(1) /\ PassEnded(2) =>
         mon[1].seenIds \cup mon[2].seenIds = mon[1].seenIds

\* The agent's activity id of session s yields a notification that the
\* monitor is to send: formatActivity returns one, and it is not the
\* session-completed activity the run ends on.
ToBeSent(s, id) ==
    /\ id <= Len(feed[s])
    /\ ~UserAuthored(s, id)
    /\ ~formatActivity(Activity(feed[s][id])).null
    /\ formatActivity(Activity(feed[s][id])).type # "sessionCompleted"

\* C32: an agent activity with a notification that a polling monitor has
\* taken from the feed (it is in the seen-set of a run that was started with
\* a seed that did not hold it) has been sent to the channel or is being
\* translated or sent: the run never passes over it.
C32_ObservedIsSent ==
    \A m \in Handlers : \A id \in 1..MaxFeed :
      (/\ mon[m].seeded
       /\ mon[m].pc \notin {"unused", "terminated"}
       /\ id > mon[m].history
       /\ id \in mon[m].seenIds
       /\ ToBeSent(mon[m].session, id))
        => \/ \E i \in DOMAIN Delivered(m) : Delivered(m)[i].id = id
           \/ id \in InFlight(m)

\* A monitor that sends a notification or a filler is bound to the session
\* its conversation is mapped to at that moment.
C33_SendStep ==
    \A m \in Handlers :
      Len(mon'[m].out) > Len(mon[m].out) =>
        activeSessions[mon[m].channel] = mon[m].session

\* C33: whenever a monitor sends to a conversation's channel, its session
\* is the one the conversation is mapped to; after the session was evicted
\* no monitor of it sends anything more.
C33_OnlyMappedSessionSends == [][C33_SendStep]_vars

\* C34: of the handlers of the messages of one conversation that found no
\* session, at most one has called createSessionFull: no two such calls are
\* in flight together.
C34_OneCreatePerConversation ==
    \A c \in Conversations :
      Cardinality({h \in Handlers : /\ hand[h].channel = c
                                     /\ hand[h].pc = "createSession"
                                     /\ hand[h].createCalls = 1}) <= 1

\* The session a conversation is mapped to is one the service created.
C35_MapState ==
    \A c \in Conversations :
      activeSessions[c] # None => activeSessions[c] \in 1..created

\* An entry is written by the handler of a message of the conversation whose
\* createSessionFull call has just returned the session, and is removed by a
\* handler of the conversation whose call has just failed with NotFound.
C35_MapStep ==
    \A c \in Conversations :
      activeSessions'[c] # activeSessions[c] =>
        \/ /\ activeSessions'[c] # None
           /\ \E h \in Handlers :
                /\ hand[h].pc = "createSession"
                /\ hand[h].channel = c
                /\ hand'[h].pc = "done"
                /\ created' = created + 1
                /\ activeSessions'[c] = created'
        \/ /\ activeSessions'[c] = None
           /\ \E h \in Handlers :
                /\ hand[h].channel = c
                /\ hand[h].failedCall = "none"
                /\ hand'[h].failedCall # "none"
                /\ hand'[h].status = NotFound

\* C35: the session map holds only session ids that a successful
\* createSessionFull call for the conversation returned, written after the
\* call succeeded and removed only by the eviction on NotFound.
C35_MapWrittenAndEvictedOnly == [](C35_MapState) /\ [][C35_MapStep]_vars

\* The handler of a message that found its conversation mapped to a session.
InActiveBranch(h) == hand[h].session # None /\ hand[h].createCalls = 0

\* What holds of every such handler: no source is listed and no session
\* created; sendMessageToSession is called once the seed pass has ended, with
\* the seed complete; a monitor is started only by a handler whose one
\* sendMessageToSession call succeeded, with the seed of that handler.
C36_ActiveBranch(h) ==
    /\ hand[h].listed = "no" /\ hand[h].resolverCalls = 0
    /\ hand[h].pc = "seed" => hand[h].sendCalls = 0
    /\ hand[h].pc = "sendMessage" => hand[h].sendCalls = 1 /\ hand[h].pageToken = None
    /\ hand[h].failedCall = "listActivities" => hand[h].sendCalls = 0
    /\ hand[h].failedCall # "none" => mon[h].pc = "unused"
    /\ mon[h].pc # "unused" =>
         /\ hand[h].pc = "done"
         /\ hand[h].sendCalls = 1
         /\ mon[h].seeded
         /\ mon[h].session = hand[h].session
         /\ mon[h].pc # "terminated" => mon[h].seenIds = hand[h].seenIds

QueueIds(st) == {st.queue[i].id : i \in DOMAIN st.queue}

\* The identifiers of the page a poll of session s returns.
PolledIds(s) == {Page(feed[s], None)[i].id : i \in DOMAIN Page(feed[s], None)}

\* Between two polls a run holds nothing of a page.
C37_IterationEnded ==
    \A m \in Handlers : mon[m].pc \in {"sleep", "mutter"} => mon[m].queue = <<>>

\* In a run that goes on, the seen-set keeps what it holds; a poll that
\* found a new activity leaves every identifier of its page in the seen-set
\* or with the activities still to be handled; and an activity is taken from
\* those only into the seen-set.
C37_SeenStep ==
    \A m \in Handlers :
      mon[m].pc # "unused" /\ mon'[m].pc # "terminated" =>
        /\ mon[m].seenIds \subseteq mon'[m].seenIds
        /\ QueueIds(mon[m]) \subseteq mon'[m].seenIds \cup QueueIds(mon'[m])
        /\ (/\ mon[m].pc = "sleep"
            /\ mon'[m].polls = mon[m].polls + 1
            /\ mon'[m].seenIds # mon[m].seenIds) =>
              PolledIds(mon[m].session) \subseteq mon'[m].seenIds \cup QueueIds(mon'[m])

\* C37: the seen-set of a monitor never shrinks, and when a poll iteration
\* has ended it holds the identifier of every activity the poll returned,
\* those of the user's turns and of activities without a notification
\* included.
C37_SeenSetGrows == [](C37_IterationEnded) /\ [][C37_SeenStep]_vars

\* C37 witness: an iteration has ended whose poll returned a turn of the
\* user and an activity without a notification next to each other, and the
\* seen-set holds both.
C37_Witness ==
    /\ mon[1].pc = "sleep"
    /\ mon[1].polls = 1
    /\ mon[1].seenIds = {1, 2}
    /\ mon[1].history = 0
    /\ mon[1].out = <<>>
    /\ feed[1][1] = "UserProgress"
    /\ feed[1][2] = "AgentOutputsNoPR"

\* A request that carries both headers and a signature made with the key.
Signed == fcall.arg.signature = "valid" /\ fcall.arg.timestamp = "present"

\* C38: a request without the signature headers or with a signature that
\* does not verify never reaches the handler: it starts no control action
\* and is answered with status 401.
C38_UnverifiedNeverActs ==
    fcall.fn = "interactions" /\ ~Signed =>
      /\ fcall.pc # "handler"
      /\ fcall.result.actions = {}
      /\ fcall.pc = "answered" => fcall.result.status = 401

\* C39: waitForAgentResponse polls at most 20 times and ends by returning
\* the reply or null; whatever listActivities returned (null, a body with
\* no activities field, an empty list, a list with activities) it does not
\* throw, and the session of the conversation stays as it was.
C39_WaitNeverThrows ==
    fcall.fn = "waitForAgentResponse" =>
      /\ fcall.arg.polls <= MaxAttempts
      /\ fcall.pc = "returned" => fcall.result.value \in {JulesReplied, "null"}
      /\ fcall.pc = "threw" => fcall.result.after = "rejected"
      /\ activeSessions = [c \in Conversations |-> 1]

====
